---- MODULE Spec2Model ----
(***************************************************************************)
(* Model of src/src/components/BlockCalculator.tsx: the BlockCalculator    *)
(* component, its tip-height fetch, and the two conversions.               *)
(*                                                                         *)
(* JavaScript values are tagged records [k, n]: k is the kind, n the       *)
(* integer payload of a number (0 for the other kinds).  Text inputs are   *)
(* sequences: <<>> is the empty string "".                                 *)
(* Timestamps are milliseconds counted from a model epoch; the local time  *)
(* zone offset is taken as 0.                                              *)
(***************************************************************************)
EXTENDS Integers, Sequences, FiniteSets, TLC

VARIABLES mounted, network, currentBlockHeight, loading, dateInput, timeInput,
          calculatedBlock, blockInput, calculatedDate, estimatedDate,
          toasts, inflight, nextId, lastOk, now

vars == <<mounted, network, currentBlockHeight, loading, dateInput, timeInput,
          calculatedBlock, blockInput, calculatedDate, estimatedDate,
          toasts, inflight, nextId, lastOk, now>>

----------------------------------------------------------------------------
(* Bounds *)

MaxRequests == 2
MaxToasts == 2

----------------------------------------------------------------------------
(* Program constants *)

AVERAGE_BLOCK_TIME == 10 * 60 * 1000

NetworkType == {"mainnet", "signet"}

----------------------------------------------------------------------------
(* JavaScript values *)

Null == [k |-> "null", n |-> 0]
NaN == [k |-> "NaN", n |-> 0]
Obj == [k |-> "object", n |-> 0]
Unparsable == [k |-> "unparsable", n |-> 0]
InvalidDate == [k |-> "Invalid Date", n |-> 0]
Num(i) == [k |-> "number", n |-> i]
Str(i) == [k |-> "string", n |-> i]

IsNum(v) == v.k = "number"

\* ToNumber: null is 0, an object is NaN.
ToNumber(v) == IF v.k = "number" THEN v ELSE IF v.k = "null" THEN Num(0) ELSE NaN

\* !v on a number | null | object
Falsy(v) == v.k = "null" \/ v.k = "NaN" \/ (v.k = "number" /\ v.n = 0)

\* !s on a string
Blank(s) == s = <<>>

\* a - b
JsSub(a, b) ==
    IF IsNum(ToNumber(a)) /\ IsNum(ToNumber(b))
    THEN Num(ToNumber(a).n - ToNumber(b).n) ELSE NaN

\* a + b: with an object operand it is string concatenation
JsAdd(a, b) ==
    IF a.k = "object" \/ b.k = "object" \/ a.k = "string" \/ b.k = "string"
    THEN Str(0)
    ELSE IF IsNum(ToNumber(a)) /\ IsNum(ToNumber(b))
         THEN Num(ToNumber(a).n + ToNumber(b).n) ELSE NaN

\* a * b
JsMul(a, b) ==
    IF IsNum(ToNumber(a)) /\ IsNum(ToNumber(b))
    THEN Num(ToNumber(a).n * ToNumber(b).n) ELSE NaN

\* a > b: false when either side is NaN
JsGt(a, b) ==
    /\ IsNum(ToNumber(a))
    /\ IsNum(ToNumber(b))
    /\ ToNumber(a).n > ToNumber(b).n

\* Math.round(a / d) for an integer d > 0: floor(a / d + 1/2)
MathRoundDiv_floor(a, d) ==
    IF IsNum(ToNumber(a)) THEN Num(ToNumber(a).n \div d) ELSE NaN

MathRoundDiv(a, d) ==
    IF IsNum(ToNumber(a)) THEN Num((2 * ToNumber(a).n + d) \div (2 * d)) ELSE NaN

\* Math.max(0, v)
MathMax0(v) ==
    IF IsNum(ToNumber(v))
    THEN (IF ToNumber(v).n > 0 THEN ToNumber(v) ELSE Num(0))
    ELSE NaN

\* new Date(`${d}T${t}`).getTime(): d = <<day>>, t = <<minute of the day>>
ParseDate(d, t) ==
    IF d = <<>> \/ t = <<>> THEN NaN
    ELSE Num(d[1] * 86400000 + t[1] * 60000)

\* parseInt(s): s = <<i>> is the numeral "i", s = <<i, f>> is "i.f"
parseInt(s) == IF s = <<>> THEN NaN ELSE Num(s[1])

\* Date.prototype.toLocaleString: a text with whole seconds
toLocaleString(ts) ==
    IF IsNum(ts) THEN Str((ts.n \div 1000) * 1000) ELSE InvalidDate

\* response.json(): the body text parsed as JSON; Unparsable stands for the
\* rejection on a text that is not JSON
json(body) ==
    CASE body = "-1" -> Num(-1)
      [] body = "0" -> Num(0)
      [] body = "2" -> Num(2)
      [] body = "null" -> Null
      [] body = "{\"error\":\"unavailable\"}" -> Obj
      [] OTHER -> Unparsable

----------------------------------------------------------------------------
(* The two conversions *)

dateToBlock_pastAdds(targetTimestamp, currentTimestamp, tip) ==
    IF JsGt(targetTimestamp, currentTimestamp)
    THEN JsAdd(tip, MathRoundDiv(JsSub(targetTimestamp, currentTimestamp),
                                 AVERAGE_BLOCK_TIME))
    ELSE MathMax0(JsAdd(tip, MathRoundDiv(JsSub(currentTimestamp, targetTimestamp),
                                          AVERAGE_BLOCK_TIME)))

dateToBlock(targetTimestamp, currentTimestamp, tip) ==
    IF JsGt(targetTimestamp, currentTimestamp)
    THEN JsAdd(tip, MathRoundDiv(JsSub(targetTimestamp, currentTimestamp),
                                 AVERAGE_BLOCK_TIME))
    ELSE MathMax0(JsSub(tip, MathRoundDiv(JsSub(currentTimestamp, targetTimestamp),
                                          AVERAGE_BLOCK_TIME)))

blockToDate_clamped(targetBlock, currentTimestamp, tip) ==
    JsAdd(currentTimestamp, JsMul(MathMax0(JsSub(targetBlock, tip)), Num(AVERAGE_BLOCK_TIME)))

blockToDate(targetBlock, currentTimestamp, tip) ==
    JsAdd(currentTimestamp, JsMul(JsSub(targetBlock, tip), Num(AVERAGE_BLOCK_TIME)))

----------------------------------------------------------------------------
(* Inputs *)

Bodies == {"-1", "0", "2", "null", "{\"error\":\"unavailable\"}", "<html>Bad Gateway</html>"}
Statuses == {200, 503}
DateTexts == {<<>>, <<0>>}
TimeTexts == {<<>>, <<100>>, <<101>>}
BlockTexts == {<<>>, <<1>>}
Nows == {6000000, 6000001}

ConvTips == {Num(1), Num(7), Num(800000)}
ConvNows == {6000000, 6000001, 6300000}
ConvDateTexts == {<<>>, <<0>>, <<1>>}
ConvTimeTexts == {<<>>, <<0>>, <<95>>, <<100>>, <<105>>, <<200>>}
ConvBlockTexts == {<<>>, <<0>>, <<7>>, <<9, 5>>, <<799990>>, <<800000>>, <<800010>>}

\* The block heights typed next to the tip: their distance from it, times
\* AVERAGE_BLOCK_TIME, stays inside the model's integers.
MaxBlockDiff == 1000
NearTip(v) ==
    \/ v = <<>>
    \/ ~IsNum(currentBlockHeight)
    \/ /\ v[1] - currentBlockHeight.n <= MaxBlockDiff
       /\ currentBlockHeight.n - v[1] <= MaxBlockDiff

----------------------------------------------------------------------------
(* State after useState, before the first effect has run *)

Init ==
    /\ mounted = FALSE
    /\ network = "mainnet"
    /\ currentBlockHeight = Null
    /\ loading = FALSE
    /\ dateInput = <<>>
    /\ timeInput = <<>>
    /\ calculatedBlock = Null
    /\ blockInput = <<>>
    /\ calculatedDate = Null
    /\ estimatedDate = Null
    /\ toasts = <<>>
    /\ inflight = {}
    /\ nextId = 0
    /\ lastOk = <<>>
    /\ now \in Nows

\* A loaded component with no request outstanding
InitConv ==
    /\ mounted = TRUE
    /\ network = "mainnet"
    /\ currentBlockHeight \in ConvTips
    /\ loading = FALSE
    /\ dateInput = <<>>
    /\ timeInput = <<>>
    /\ calculatedBlock = Null
    /\ blockInput = <<>>
    /\ calculatedDate = Null
    /\ estimatedDate = Null
    /\ toasts = <<>>
    /\ inflight = {}
    /\ nextId = 1
    /\ lastOk = <<[id |-> 0, net |-> "mainnet", status |-> 200, value |-> currentBlockHeight]>>
    /\ now \in ConvNows

----------------------------------------------------------------------------
(* Tip-height fetch *)

toast(title) == toasts' = Append(toasts, title)

CanToast == Len(toasts) < MaxToasts

Request(net) == [id |-> nextId, net |-> net]

\* fetchCurrentBlock, had it aborted the requests still outstanding
fetchCurrentBlock_aborting(net) ==
    /\ loading' = TRUE
    /\ inflight' = {Request(net)}
    /\ nextId' = nextId + 1

\* fetchCurrentBlock up to its first await, for the network of this render
fetchCurrentBlock(net) ==
    /\ loading' = TRUE
    /\ inflight' = inflight \cup {Request(net)}
    /\ nextId' = nextId + 1

\* useEffect on mount
Mount ==
    /\ ~mounted
    /\ mounted' = TRUE
    /\ fetchCurrentBlock(network)
    /\ UNCHANGED <<network, currentBlockHeight, dateInput, timeInput, calculatedBlock,
                   blockInput, calculatedDate, estimatedDate, toasts, lastOk, now>>

\* Switch.onCheckedChange: setNetwork, then useEffect for [network]
setNetwork(checked) ==
    /\ mounted
    /\ nextId < MaxRequests
    /\ checked = (network # "signet")
    /\ network' = (IF checked THEN "signet" ELSE "mainnet")
    /\ fetchCurrentBlock(network')
    /\ UNCHANGED <<mounted, currentBlockHeight, dateInput, timeInput, calculatedBlock,
                   blockInput, calculatedDate, estimatedDate, toasts, lastOk, now>>

\* catch and finally
fetchFailed(r) ==
    /\ CanToast
    /\ toast("Error")
    /\ loading' = FALSE
    /\ inflight' = inflight \ {r}
    /\ UNCHANGED <<mounted, network, currentBlockHeight, dateInput, timeInput,
                   calculatedBlock, blockInput, calculatedDate, estimatedDate,
                   nextId, lastOk, now>>

\* await fetch(...) rejects: transport failure
FetchRejects(r) ==
    /\ r \in inflight
    /\ fetchFailed(r)

\* await fetch(...) resolves with a response of any status, then
\* await response.json() rejects: the body is not JSON
JsonRejects(r, status, body) ==
    /\ r \in inflight
    /\ json(body) = Unparsable
    /\ fetchFailed(r)

\* await fetch(...) resolves with a response of any status, then
\* await response.json() resolves: setCurrentBlockHeight(height), finally
JsonResolves(r, status, body) ==
    /\ r \in inflight
    /\ json(body) # Unparsable
    /\ currentBlockHeight' = json(body)
    /\ loading' = FALSE
    /\ inflight' = inflight \ {r}
    /\ lastOk' = <<[id |-> r.id, net |-> r.net, status |-> status, value |-> json(body)]>>
    /\ UNCHANGED <<mounted, network, dateInput, timeInput, calculatedBlock, blockInput,
                   calculatedDate, estimatedDate, toasts, nextId, now>>

----------------------------------------------------------------------------
(* Inputs and calculations *)

setDateInput(v) ==
    /\ mounted
    /\ v # dateInput
    /\ dateInput' = v
    /\ UNCHANGED <<mounted, network, currentBlockHeight, loading, timeInput,
                   calculatedBlock, blockInput, calculatedDate, estimatedDate,
                   toasts, inflight, nextId, lastOk, now>>

setTimeInput(v) ==
    /\ mounted
    /\ v # timeInput
    /\ timeInput' = v
    /\ UNCHANGED <<mounted, network, currentBlockHeight, loading, dateInput,
                   calculatedBlock, blockInput, calculatedDate, estimatedDate,
                   toasts, inflight, nextId, lastOk, now>>

setBlockInput(v) ==
    /\ mounted
    /\ v # blockInput
    /\ blockInput' = v
    /\ UNCHANGED <<mounted, network, currentBlockHeight, loading, dateInput, timeInput,
                   calculatedBlock, calculatedDate, estimatedDate,
                   toasts, inflight, nextId, lastOk, now>>

\* Date.now() advances
Tick(t) ==
    /\ t > now
    /\ now' = t
    /\ UNCHANGED <<mounted, network, currentBlockHeight, loading, dateInput, timeInput,
                   calculatedBlock, blockInput, calculatedDate, estimatedDate,
                   toasts, inflight, nextId, lastOk>>

missingDateInput_noTime == Blank(dateInput) \/ Falsy(currentBlockHeight)

missingDateInput == Blank(dateInput) \/ Blank(timeInput) \/ Falsy(currentBlockHeight)

missingBlockInput == Blank(blockInput) \/ Falsy(currentBlockHeight)

calculateBlockFromDate ==
    /\ mounted
    /\ IF missingDateInput
       THEN /\ CanToast
            /\ toast("Missing input")
            /\ UNCHANGED calculatedBlock
       ELSE /\ calculatedBlock' = dateToBlock(ParseDate(dateInput, timeInput), Num(now),
                                              currentBlockHeight)
            /\ UNCHANGED toasts
    /\ UNCHANGED <<mounted, network, currentBlockHeight, loading, dateInput, timeInput,
                   blockInput, calculatedDate, estimatedDate, inflight, nextId, lastOk, now>>

calculateDateFromBlock ==
    /\ mounted
    /\ IF missingBlockInput
       THEN /\ CanToast
            /\ toast("Missing input")
            /\ UNCHANGED <<calculatedDate, estimatedDate>>
       ELSE /\ estimatedDate' = blockToDate(parseInt(blockInput), Num(now),
                                            currentBlockHeight)
            /\ calculatedDate' = toLocaleString(estimatedDate')
            /\ UNCHANGED toasts
    /\ UNCHANGED <<mounted, network, currentBlockHeight, loading, dateInput, timeInput,
                   calculatedBlock, blockInput, inflight, nextId, lastOk, now>>

----------------------------------------------------------------------------
(* Specifications *)

Next ==
    \/ Mount
    \/ \E checked \in BOOLEAN : setNetwork(checked)
    \/ \E r \in inflight : FetchRejects(r)
    \/ \E r \in inflight, status \in Statuses, body \in Bodies : JsonRejects(r, status, body)
    \/ \E r \in inflight, status \in Statuses, body \in Bodies : JsonResolves(r, status, body)
    \/ \E v \in DateTexts : setDateInput(v)
    \/ \E v \in TimeTexts : setTimeInput(v)
    \/ \E v \in BlockTexts : setBlockInput(v)
    \/ \E t \in Nows : Tick(t)
    \/ calculateBlockFromDate
    \/ calculateDateFromBlock

Spec == Init /\ [][Next]_vars

NextConv ==
    \/ \E v \in ConvDateTexts : setDateInput(v)
    \/ \E v \in ConvTimeTexts : setTimeInput(v)
    \/ \E v \in {b \in ConvBlockTexts : NearTip(b)} : setBlockInput(v)
    \/ calculateBlockFromDate
    \/ calculateDateFromBlock

SpecConv == InitConv /\ [][NextConv]_vars

----------------------------------------------------------------------------
(* Properties *)

\* The timestamp the date and time fields denote, when both are filled in
Target == dateInput[1] * 86400000 + timeInput[1] * 60000

DateFilled == dateInput # <<>> /\ timeInput # <<>>

\* b is an integer nearest to diff / 600000 (either one on a tie)
Nearest(b, diff) ==
    /\ 2 * diff - 600000 <= 2 * 600000 * b
    /\ 2 * 600000 * b <= 2 * diff + 600000

Abs(i) == IF i < 0 THEN -i ELSE i

LastToast == IF toasts = <<>> THEN "" ELSE toasts[Len(toasts)]

\* C1: a calculation invoked with a blank required field, or with no tip
\* height loaded, raises a "Missing input" notification and changes nothing
\* else: results, tip height, network and input fields stay as they were.
C1_RefusedLeavesState ==
    [][(\/ /\ calculateBlockFromDate
           /\ (dateInput = <<>> \/ timeInput = <<>> \/ currentBlockHeight = Null)
        \/ /\ calculateDateFromBlock
           /\ (blockInput = <<>> \/ currentBlockHeight = Null))
       => /\ toasts' = Append(toasts, "Missing input")
          /\ UNCHANGED <<mounted, network, currentBlockHeight, loading, dateInput,
                         timeInput, calculatedBlock, blockInput, calculatedDate,
                         estimatedDate, inflight, nextId, lastOk, now>>]_vars

\* A refusal with a blank date and a populated time, after a result was shown
C1_Witness ==
    /\ dateInput = <<>>
    /\ timeInput # <<>>
    /\ IsNum(calculatedBlock)
    /\ LastToast = "Missing input"

\* C2: with the required fields filled in and a tip height that is any
\* non-negative integer, calculate sets the form's result and raises no
\* notification.
C2_CalculateComputes ==
    [][/\ (/\ calculateBlockFromDate
           /\ DateFilled
           /\ IsNum(currentBlockHeight)
           /\ currentBlockHeight.n >= 0)
          => (toasts' = toasts /\ IsNum(calculatedBlock'))
       /\ (/\ calculateDateFromBlock
           /\ blockInput # <<>>
           /\ IsNum(currentBlockHeight)
           /\ currentBlockHeight.n >= 0)
          => (toasts' = toasts /\ calculatedDate'.k = "string")]_vars

\* C3: for a tip height >= 0 and a target at or before now the computed
\* height is max(0, tip - round((now - target) / 600000)), and the height
\* shown is never negative in any reachable state.
C3_PastClampedNeverNegative ==
    /\ [][(/\ calculateBlockFromDate
           /\ DateFilled
           /\ IsNum(currentBlockHeight)
           /\ currentBlockHeight.n >= 0
           /\ Target <= now)
          => /\ IsNum(calculatedBlock')
             /\ \E b \in 0..200 :
                  /\ Nearest(b, now - Target)
                  /\ calculatedBlock'.n = (IF currentBlockHeight.n - b > 0
                                           THEN currentBlockHeight.n - b ELSE 0)
             /\ (Target = now => calculatedBlock'.n = currentBlockHeight.n)]_vars
    /\ [](calculatedBlock = Null \/ (IsNum(calculatedBlock) /\ calculatedBlock.n >= 0))

\* C4: a calculation for a target strictly after now yields
\* tip + round((target - now) / 600000), which is >= tip; tip 800000 and a
\* target 6,000,000 ms ahead give 800010.
C4_FutureAddsBlocks ==
    [][(/\ calculateBlockFromDate
        /\ toasts' = toasts
        /\ DateFilled
        /\ IsNum(currentBlockHeight)
        /\ Target > now)
       => /\ IsNum(calculatedBlock')
          /\ Nearest(calculatedBlock'.n - currentBlockHeight.n, Target - now)
          /\ calculatedBlock'.n >= currentBlockHeight.n
          /\ (currentBlockHeight.n = 800000 /\ Target = now + 6000000
              => calculatedBlock'.n = 800010)]_vars

C4_Witness ==
    /\ DateFilled
    /\ Target = now + 6000000
    /\ currentBlockHeight = Num(800000)
    /\ calculatedBlock = Num(800010)

RoundTrip ==
    blockToDate(dateToBlock(Num(Target), Num(now), currentBlockHeight),
                Num(now), currentBlockHeight)

C7_FailureKeepsTip ==
    [][(\/ \E r \in inflight : FetchRejects(r)
        \/ \E r \in inflight, status \in Statuses, body \in Bodies :
             /\ (JsonRejects(r, status, body) \/ JsonResolves(r, status, body))
             /\ (status # 200 \/ body \notin {"-1", "0", "2"}))
       => /\ toasts' = Append(toasts, "Error")
          /\ UNCHANGED <<mounted, network, currentBlockHeight, dateInput, timeInput,
                         calculatedBlock, blockInput, calculatedDate, estimatedDate,
                         nextId, now>>]_vars

\* C8: the tip height is absent or a non-negative integer in every state.
C8_TipNonNegative ==
    currentBlockHeight = Null \/ (IsNum(currentBlockHeight) /\ currentBlockHeight.n >= 0)

\* C9: mounting and every network change issue exactly one request, for the
\* network selected by that step, and cancel none; nothing else issues one;
\* the tip height is the value of the response that resolved successfully
\* last, whichever network it was requested for.
C9_OneRequestLastWins ==
    /\ [][/\ Mount => inflight' = inflight \cup {[id |-> nextId, net |-> network]}
          /\ (\E c \in BOOLEAN : setNetwork(c))
               => /\ network' # network
                  /\ inflight' = inflight \cup {[id |-> nextId, net |-> network']}
          /\ (Mount \/ \E c \in BOOLEAN : setNetwork(c))
               => /\ [id |-> nextId, net |-> network'] \notin inflight
                  /\ nextId' = nextId + 1
          /\ (nextId' # nextId \/ ~(inflight' \subseteq inflight))
               => (Mount \/ \E c \in BOOLEAN : setNetwork(c))]_vars
    /\ [](lastOk # <<>> => currentBlockHeight = lastOk[1].value)

\* All requests resolved, and the tip height is the one of a request that was
\* not the last one issued, for the network that is not selected
C9_Witness ==
    /\ inflight = {}
    /\ nextId > 1
    /\ lastOk # <<>>
    /\ lastOk[1].id < nextId - 1
    /\ lastOk[1].net # network
    /\ IsNum(currentBlockHeight)
    /\ currentBlockHeight = lastOk[1].value

\* C10: the loading flag is true exactly when a request is outstanding.
C10_LoadingIffOutstanding == loading <=> (inflight # {})

====
